---- MODULE Spec2Model ----
(***************************************************************************)
(* Model of ThesisUMLSystem (src/app.py): the rule-based extraction of a   *)
(* UML class model from a dependency parse, and the Graphviz emitter.      *)
(*                                                                         *)
(* Strings are sequences of one-character strings, so that str.lower()    *)
(* and str.capitalize() are computed character by character.               *)
(***************************************************************************)
EXTENDS Integers, Sequences, FiniteSets, TLC

VARIABLES nlpOk,          \* self.nlp is truthy (the spaCy model was loaded)
          wordnetOk,      \* wordnet.synsets answers (FALSE: it raises)
          classes,        \* self.classes: name -> [attributes, methods]
          relationships,  \* self.relationships: list of 4-tuples
          doc,            \* doc = self.nlp(text): the parsed tokens
          idx,            \* number of tokens of doc the for-loop has processed
          mult,           \* the local mult of Rule 3 (line 126), "-" until set
          graph,          \* the value process returned (NoGraph before the return)
          stale,          \* history, while pc = "parse": the reset discarded entries
          pc              \* "idle", "parse", "loop", "done" (returned), "failed" (raised)

vars == <<nlpOk, wordnetOk, classes, relationships, doc, idx, mult, graph, stale, pc>>

------------------------------------------------------------------------------
(* Bounds of the model *)

\* longest input text, in sentences, drawn from the sentence family
MaxSentences == 2

\* most syntactic children given to the object noun of a multiplicity text
MaxChildren == 2

------------------------------------------------------------------------------
(* Python str methods *)

UpperAlpha ==
  << "A","B","C","D","E","F","G","H","I","J","K","L","M",
     "N","O","P","Q","R","S","T","U","V","W","X","Y","Z" >>

LowerAlpha ==
  << "a","b","c","d","e","f","g","h","i","j","k","l","m",
     "n","o","p","q","r","s","t","u","v","w","x","y","z" >>

lowerChar(c) ==
  IF \E i \in DOMAIN UpperAlpha : UpperAlpha[i] = c
    THEN LowerAlpha[CHOOSE i \in DOMAIN UpperAlpha : UpperAlpha[i] = c]
    ELSE c

upperChar(c) ==
  IF \E i \in DOMAIN LowerAlpha : LowerAlpha[i] = c
    THEN UpperAlpha[CHOOSE i \in DOMAIN LowerAlpha : LowerAlpha[i] = c]
    ELSE c

\* str.lower(): every cased character lowercased
lower(w) == [i \in 1..Len(w) |-> lowerChar(w[i])]

\* str.capitalize(): first character uppercased, ALL the others lowercased
capitalize(w) ==
  [i \in 1..Len(w) |-> IF i = 1 THEN upperChar(w[i]) ELSE lowerChar(w[i])]

------------------------------------------------------------------------------
(* Words *)

w_car           == <<"c","a","r">>
w_Car           == <<"C","a","r">>
w_account       == <<"a","c","c","o","u","n","t">>
w_Account       == <<"A","c","c","o","u","n","t">>
w_Accounts      == <<"A","c","c","o","u","n","t","s">>
w_User          == <<"U","s","e","r">>
w_user          == <<"u","s","e","r">>
w_data          == <<"d","a","t","a">>
w_Online        == <<"O","n","l","i","n","e">>
w_online        == <<"o","n","l","i","n","e">>
w_BankSystem    == <<"B","a","n","k","S","y","s","t","e","m">>
w_Customer      == <<"C","u","s","t","o","m","e","r">>
w_customer      == <<"c","u","s","t","o","m","e","r">>
w_customers     == <<"c","u","s","t","o","m","e","r","s">>
w_Administrator == <<"A","d","m","i","n","i","s","t","r","a","t","o","r">>
w_administrator == <<"a","d","m","i","n","i","s","t","r","a","t","o","r">>
w_System        == <<"S","y","s","t","e","m">>
w_system        == <<"s","y","s","t","e","m">>
w_The           == <<"T","h","e">>
w_the           == <<"t","h","e">>
w_An            == <<"A","n">>
w_an            == <<"a","n">>
w_a             == <<"a">>
w_dot           == <<".">>
w_nl            == <<"\n">>
w_is            == <<"i","s">>
w_be            == <<"b","e">>
w_by            == <<"b","y">>
w_have          == <<"h","a","v","e">>
w_contain       == <<"c","o","n","t","a","i","n">>
w_contains      == <<"c","o","n","t","a","i","n","s">>
w_include       == <<"i","n","c","l","u","d","e">>
w_consist       == <<"c","o","n","s","i","s","t">>
w_involve       == <<"i","n","v","o","l","v","e">>
w_manage        == <<"m","a","n","a","g","e">>
w_manages       == <<"m","a","n","a","g","e","s">>
w_managed       == <<"m","a","n","a","g","e","d">>
w_own           == <<"o","w","n">>
w_owned         == <<"o","w","n","e","d">>
w_many          == <<"m","a","n","y">>
w_multiple      == <<"m","u","l","t","i","p","l","e">>
w_list          == <<"l","i","s","t">>
w_set           == <<"s","e","t">>
w_all           == <<"a","l","l">>
w_All           == <<"A","l","l">>
w_collection    == <<"c","o","l","l","e","c","t","i","o","n">>

\* the relationship kinds and the empty label
Generalization == "Generalization"
Composition    == "Composition"
Association    == "Association"
EmptyLabel     == <<>>

\* the multiplicity strings
MultOne      == <<"1">>
MultZeroMany == <<"0",".",".","*">>
MultOneMany  == <<"1",".",".","*">>
NoMult       == <<"-">>

------------------------------------------------------------------------------
(* The parser's output: spaCy tokens *)

\* one token of a Doc: the attributes the engine reads; head is the
\* position in the Doc of the governing token (a root governs itself)
Tok(text, lemma, pos, tag, dep, head) ==
  [text |-> text, lemma_ |-> lemma, pos_ |-> pos, tag_ |-> tag,
   dep_ |-> dep, head |-> head]

\* token.children: the tokens governed by token i, in document order
children(d, i) ==
  LET isChild(j) == d[j].head = i /\ j # i
  IN  SelectSeq([j \in 1..Len(d) |-> j], isChild)

\* [c for c in <token>.children if c.dep_ == <dep>]
childrenWithDep(d, i, dep) ==
  LET hasDep(j) == d[j].dep_ = dep
  IN  SelectSeq(children(d, i), hasDep)

\* nouns of the sentence family: surface text, lemma, coarse and fine tag
n_Car      == [text |-> w_Car,      lemma_ |-> w_car,     pos_ |-> "NOUN",  tag_ |-> "NN"]
n_Accounts == [text |-> w_Accounts, lemma_ |-> w_account, pos_ |-> "NOUN",  tag_ |-> "NNS"]
n_User     == [text |-> w_User,     lemma_ |-> w_User,    pos_ |-> "PROPN", tag_ |-> "NNP"]
n_Online   == [text |-> w_Online,   lemma_ |-> w_online,  pos_ |-> "NOUN",  tag_ |-> "NN"]

SubjectNouns == {n_Car, n_Accounts, n_User}
ObjectNouns  == {n_Accounts, n_Online}

\* verbs of the sentence family
v_contains == [text |-> w_contains, lemma_ |-> w_contain, tag_ |-> "VBZ"]
v_manages  == [text |-> w_manages,  lemma_ |-> w_manage,  tag_ |-> "VBZ"]
v_managed  == [text |-> w_managed,  lemma_ |-> w_manage,  tag_ |-> "VBN"]
v_is       == [text |-> w_is,       lemma_ |-> w_be,      tag_ |-> "VBZ"]

\* words that depend on an object noun
c_many      == [text |-> w_many,      lemma_ |-> w_many,     pos_ |-> "ADJ",  tag_ |-> "JJ",  dep_ |-> "amod"]
c_All       == [text |-> w_All,       lemma_ |-> w_all,      pos_ |-> "DET",  tag_ |-> "PDT", dep_ |-> "predet"]
c_customers == [text |-> w_customers, lemma_ |-> w_customer, pos_ |-> "NOUN", tag_ |-> "NNS", dep_ |-> "poss"]
c_the       == [text |-> w_the,       lemma_ |-> w_the,      pos_ |-> "DET",  tag_ |-> "DT",  dep_ |-> "det"]

ChildKinds == {c_many, c_All, c_customers, c_the}

\* sentences: "<subj> <verb> <mods> <obj>", "<subj> is <verb> by <obj>",
\* "<subj> is <obj>"
Active(s, v, m, o) == [kind |-> "active",  subj |-> s, verb |-> v,    mods |-> m,    obj |-> o]
Passive(s, v, o)   == [kind |-> "passive", subj |-> s, verb |-> v,    mods |-> <<>>, obj |-> o]
Copula(s, o)       == [kind |-> "copula",  subj |-> s, verb |-> v_is, mods |-> <<>>, obj |-> o]

\* the dependency parse of one sentence whose first token is at base + 1
SentenceTokens(s, base) ==
  IF s.kind = "active" THEN
    LET k == Len(s.mods) IN
      << Tok(s.subj.text, s.subj.lemma_, s.subj.pos_, s.subj.tag_, "nsubj", base + 2),
         Tok(s.verb.text, s.verb.lemma_, "VERB", s.verb.tag_, "ROOT", base + 2) >>
      \o [i \in 1..k |->
            Tok(s.mods[i].text, s.mods[i].lemma_, s.mods[i].pos_, s.mods[i].tag_,
                s.mods[i].dep_, base + 3 + k)]
      \o << Tok(s.obj.text, s.obj.lemma_, s.obj.pos_, s.obj.tag_, "dobj", base + 2) >>
  ELSE IF s.kind = "passive" THEN
      << Tok(s.subj.text, s.subj.lemma_, s.subj.pos_, s.subj.tag_, "nsubjpass", base + 3),
         Tok(w_is, w_be, "AUX", "VBZ", "auxpass", base + 3),
         Tok(s.verb.text, s.verb.lemma_, "VERB", s.verb.tag_, "ROOT", base + 3),
         Tok(w_by, w_by, "ADP", "IN", "agent", base + 3),
         Tok(s.obj.text, s.obj.lemma_, s.obj.pos_, s.obj.tag_, "pobj", base + 4) >>
  ELSE
      << Tok(s.subj.text, s.subj.lemma_, s.subj.pos_, s.subj.tag_, "nsubj", base + 2),
         Tok(w_is, w_be, "AUX", "VBZ", "ROOT", base + 2),
         Tok(s.obj.text, s.obj.lemma_, s.obj.pos_, s.obj.tag_, "attr", base + 2) >>

RECURSIVE parseFrom(_, _)
parseFrom(text, base) ==
  IF text = <<>> THEN <<>>
  ELSE LET toks == SentenceTokens(Head(text), base)
       IN  toks \o parseFrom(Tail(text), base + Len(toks))

\* self.nlp(text) for a text given as its sentences
nlp(text) == parseFrom(text, 0)

\* subject and object of a sentence: any pair, and the pairs of two nouns
NounPairs     == SubjectNouns \X ObjectNouns
DistinctPairs == {p \in NounPairs : p[1] # p[2]}

\* the sentence family
Sentences ==
     { Active(p[1], v_contains, <<>>, p[2]) : p \in DistinctPairs }
  \cup { Active(p[1], v_manages, <<>>, p[2]) : p \in NounPairs }
  \cup { Passive(p[1], v_managed, p[2]) : p \in DistinctPairs }
  \cup { Copula(p[1], p[2]) : p \in DistinctPairs }

RECURSIVE SeqsUpTo(_, _)
SeqsUpTo(n, S) ==
  IF n = 0 THEN {<<>>}
  ELSE LET shorter == SeqsUpTo(n - 1, S)
       IN  shorter \cup {Append(q, x) : q \in shorter, x \in S}

\* texts of up to MaxSentences sentences of the family
FamilyDocs == {nlp(t) : t \in SeqsUpTo(MaxSentences, Sentences)}

\* texts "Car contains <children> Accounts" with up to MaxChildren
\* children of the object noun, of every kind and in every order, alone or
\* after "Car manages Accounts"
MultiplicityDocs ==
  { nlp(pre \o <<Active(n_Car, v_contains, m, n_Accounts)>>) :
      pre \in {<<>>, <<Active(n_Car, v_manages, <<>>, n_Accounts)>>},
      m \in SeqsUpTo(MaxChildren, ChildKinds) }

\* the parse of the text area's default text
DefaultDoc ==
  << Tok(w_The, w_the, "DET", "DT", "det", 2),
     Tok(w_BankSystem, w_BankSystem, "PROPN", "NNP", "nsubj", 3),
     Tok(w_contains, w_contain, "VERB", "VBZ", "ROOT", 3),
     Tok(w_many, w_many, "ADJ", "JJ", "amod", 5),
     Tok(w_Accounts, w_account, "NOUN", "NNS", "dobj", 3),
     Tok(w_dot, w_dot, "PUNCT", ".", "punct", 3),
     Tok(w_nl, w_nl, "SPACE", "_SP", "dep", 6),
     Tok(w_An, w_an, "DET", "DT", "det", 9),
     Tok(w_Account, w_account, "NOUN", "NN", "nsubjpass", 11),
     Tok(w_is, w_be, "AUX", "VBZ", "auxpass", 11),
     Tok(w_owned, w_own, "VERB", "VBN", "ROOT", 11),
     Tok(w_by, w_by, "ADP", "IN", "agent", 11),
     Tok(w_a, w_a, "DET", "DT", "det", 14),
     Tok(w_Customer, w_customer, "NOUN", "NN", "pobj", 12),
     Tok(w_dot, w_dot, "PUNCT", ".", "punct", 11),
     Tok(w_nl, w_nl, "SPACE", "_SP", "dep", 15),
     Tok(w_The, w_the, "DET", "DT", "det", 18),
     Tok(w_Administrator, w_administrator, "NOUN", "NN", "nsubj", 19),
     Tok(w_manages, w_manage, "VERB", "VBZ", "ROOT", 19),
     Tok(w_the, w_the, "DET", "DT", "det", 21),
     Tok(w_System, w_system, "NOUN", "NN", "dobj", 19),
     Tok(w_dot, w_dot, "PUNCT", ".", "punct", 19) >>

\* the parses process may be handed
Docs == FamilyDocs \cup MultiplicityDocs \cup {DefaultDoc}

------------------------------------------------------------------------------
(* WordNet and the two helper methods *)

\* wordnet.synsets(word), as the set of the pos() of the synsets found:
\* "online" is known as an adjective only, "banksystem" is unknown
synsets(word) ==
  CASE word = w_car           -> {"n"}
    [] word = w_account       -> {"n", "v"}
    [] word = w_user          -> {"n"}
    [] word = w_online        -> {"a"}
    [] word = w_customer      -> {"n"}
    [] word = w_administrator -> {"n"}
    [] word = w_system        -> {"n"}
    [] OTHER                  -> {}

\* check_ontology: a lookup that raises answers True
check_ontology(wnOk, word) ==
  IF ~wnOk THEN TRUE
  ELSE IF synsets(word) = {} THEN TRUE
  ELSE \E s \in synsets(word) : s = "n"

QuantifierWords == {w_many, w_multiple, w_list, w_set, w_all, w_collection}

\* the for-loop of detect_multiplicity over the remaining children cs
RECURSIVE scanChildren(_, _)
scanChildren(d, cs) ==
  IF cs = <<>> THEN MultOne
  ELSE LET child == d[Head(cs)] IN
       IF lower(child.text) \in QuantifierWords THEN MultOneMany
       ELSE IF child.tag_ = "NNS" THEN MultZeroMany
       ELSE scanChildren(d, Tail(cs))

detect_multiplicity(d, i) == scanChildren(d, children(d, i))

------------------------------------------------------------------------------
(* The class registry and the extraction rules *)

NewEntry == [attributes |-> {}, methods |-> {}]

\* faulty variant of register: the entry is assigned without the membership test
register_overwrite(cls, c) ==
  [x \in DOMAIN cls \cup {c} |-> IF x = c THEN NewEntry ELSE cls[x]]

\* if c not in self.classes: self.classes[c] = {'attributes': set(), 'methods': set()}
register(cls, c) ==
  IF c \in DOMAIN cls THEN cls ELSE cls @@ (c :> NewEntry)

\* self.classes[c]['attributes'].add(a)
add_attribute(cls, c, a) ==
  [cls EXCEPT ![c].attributes = @ \cup {a}]

\* self.classes[c]['methods'].add(m)
add_method(cls, c, m) ==
  [cls EXCEPT ![c].methods = @ \cup {m}]

DenyList         == {w_user, w_data}
CompositionVerbs == {w_have, w_contain, w_include, w_consist}
ignored_verbs    == {w_be, w_have, w_include, w_consist, w_contain, w_involve}

\* The engine state the rules read and write
EngineState(cls, rels, m) == [classes |-> cls, relationships |-> rels, mult |-> m]

\* Rule 1: class identification
Rule1(st, d, i, wnOk) ==
  LET token == d[i] IN
  IF    token.pos_ \in {"NOUN", "PROPN"}
     /\ token.dep_ \in {"nsubj", "dobj", "pobj", "nsubjpass"}
     /\ lower(token.lemma_) \notin DenyList
     /\ check_ontology(wnOk, lower(token.lemma_))
  THEN [st EXCEPT !.classes = register(@, capitalize(token.lemma_))]
  ELSE st

\* faulty variant of Rule2: the endpoints are created instead of being required
Rule2_creating(st, d, i) ==
  LET subj == childrenWithDep(d, i, "nsubj")
      attr == childrenWithDep(d, i, "attr")
  IN  IF subj # <<>> /\ attr # <<>> THEN
        LET c == capitalize(d[subj[1]].lemma_)
            p == capitalize(d[attr[1]].lemma_)
        IN  [st EXCEPT !.classes = register(register(@, c), p),
                       !.relationships =
                           Append(@, <<c, Generalization, p, EmptyLabel>>)]
      ELSE st

\* Rule 2: generalization (token.lemma_ == "be")
Rule2(st, d, i) ==
  LET subj == childrenWithDep(d, i, "nsubj")
      attr == childrenWithDep(d, i, "attr")
  IN  IF subj # <<>> /\ attr # <<>> THEN
        LET c == capitalize(d[subj[1]].lemma_)
            p == capitalize(d[attr[1]].lemma_)
        IN  IF c \in DOMAIN st.classes /\ p \in DOMAIN st.classes
            THEN [st EXCEPT !.relationships =
                                Append(@, <<c, Generalization, p, EmptyLabel>>)]
            ELSE st
      ELSE st

\* faulty variant of Rule3: the object is demoted to an attribute also when its
\* class is registered
Rule3_alwaysDemoting(st, d, i) ==
  LET owners == childrenWithDep(d, i, "nsubj")
      objs   == childrenWithDep(d, i, "dobj")
  IN  IF owners # <<>> /\ objs # <<>> THEN
        LET o      == capitalize(d[owners[1]].lemma_)
            m      == detect_multiplicity(d, objs[1])
            mlabel == IF m # MultOne THEN m ELSE EmptyLabel
            obj_c  == capitalize(d[objs[1]].lemma_)
            st1    == [st EXCEPT !.mult = m]
        IN  IF o \in DOMAIN st.classes THEN
              IF obj_c \in DOMAIN st.classes
              THEN [st1 EXCEPT !.relationships =
                                   Append(@, <<o, Composition, obj_c, mlabel>>),
                               !.classes = add_attribute(@, o, d[objs[1]].text)]
              ELSE [st1 EXCEPT !.classes = add_attribute(@, o, d[objs[1]].text)]
            ELSE st1
      ELSE st

\* Rule 3: composition or demotion to an attribute
Rule3(st, d, i) ==
  LET owners == childrenWithDep(d, i, "nsubj")
      objs   == childrenWithDep(d, i, "dobj")
  IN  IF owners # <<>> /\ objs # <<>> THEN
        LET o      == capitalize(d[owners[1]].lemma_)
            m      == detect_multiplicity(d, objs[1])
            mlabel == IF m # MultOne THEN m ELSE EmptyLabel
            obj_c  == capitalize(d[objs[1]].lemma_)
            st1    == [st EXCEPT !.mult = m]
        IN  IF o \in DOMAIN st.classes THEN
              IF obj_c \in DOMAIN st.classes
              THEN [st1 EXCEPT !.relationships =
                                   Append(@, <<o, Composition, obj_c, mlabel>>)]
              ELSE [st1 EXCEPT !.classes = add_attribute(@, o, d[objs[1]].text)]
            ELSE st1
      ELSE st

\* faulty variant of Rule4: the object's class is not required to be registered
Rule4_uncheckedObject(st, d, i) ==
  LET subjs == childrenWithDep(d, i, "nsubj") IN
  IF subjs # <<>> THEN
    LET s == capitalize(d[subjs[1]].lemma_) IN
    IF s \in DOMAIN st.classes THEN
      LET st1   == [st EXCEPT !.classes = add_method(@, s, d[i].lemma_)]
          dobjs == childrenWithDep(d, i, "dobj")
      IN  IF dobjs # <<>> THEN
            LET o == capitalize(d[dobjs[1]].lemma_) IN
            IF s # o
            THEN [st1 EXCEPT !.relationships =
                                 Append(@, <<s, Association, o, d[i].lemma_>>)]
            ELSE st1
          ELSE st1
    ELSE st
  ELSE st

\* Rule 4: association
Rule4(st, d, i) ==
  LET subjs == childrenWithDep(d, i, "nsubj") IN
  IF subjs # <<>> THEN
    LET s == capitalize(d[subjs[1]].lemma_) IN
    IF s \in DOMAIN st.classes THEN
      LET st1   == [st EXCEPT !.classes = add_method(@, s, d[i].lemma_)]
          dobjs == childrenWithDep(d, i, "dobj")
      IN  IF dobjs # <<>> THEN
            LET o == capitalize(d[dobjs[1]].lemma_) IN
            IF o \in DOMAIN st1.classes /\ s # o
            THEN [st1 EXCEPT !.relationships =
                                 Append(@, <<s, Association, o, d[i].lemma_>>)]
            ELSE st1
          ELSE st1
    ELSE st
  ELSE st

\* the if / elif / elif chain of Rules 2, 3 and 4
Rule234(st, d, i) ==
  IF d[i].lemma_ = w_be THEN Rule2(st, d, i)
  ELSE IF d[i].lemma_ \in CompositionVerbs THEN Rule3(st, d, i)
  ELSE IF d[i].pos_ = "VERB" /\ d[i].lemma_ \notin ignored_verbs THEN Rule4(st, d, i)
  ELSE st

\* faulty variant of Rule5: only the actor's class is created
Rule5_actorOnly(st, d, i) ==
  IF d[i].dep_ = "agent" /\ d[d[i].head].pos_ = "VERB" THEN
    LET actual_agent == childrenWithDep(d, i, "pobj")
        verb         == d[i].head
        passive_subj == childrenWithDep(d, verb, "nsubjpass")
    IN  IF actual_agent # <<>> /\ passive_subj # <<>> THEN
          LET act  == capitalize(d[actual_agent[1]].lemma_)
              rec  == capitalize(d[passive_subj[1]].lemma_)
              cls1 == register(st.classes, act)
              cls2 == add_method(cls1, act, d[verb].lemma_)
          IN  [st EXCEPT !.classes = cls2,
                         !.relationships =
                             Append(@, <<act, Association, rec, d[verb].lemma_>>)]
        ELSE st
  ELSE st

\* Rule 5: passive voice
Rule5(st, d, i) ==
  IF d[i].dep_ = "agent" /\ d[d[i].head].pos_ = "VERB" THEN
    LET actual_agent == childrenWithDep(d, i, "pobj")
        verb         == d[i].head
        passive_subj == childrenWithDep(d, verb, "nsubjpass")
    IN  IF actual_agent # <<>> /\ passive_subj # <<>> THEN
          LET act  == capitalize(d[actual_agent[1]].lemma_)
              rec  == capitalize(d[passive_subj[1]].lemma_)
              cls1 == register(register(st.classes, act), rec)
              cls2 == add_method(cls1, act, d[verb].lemma_)
          IN  [st EXCEPT !.classes = cls2,
                         !.relationships =
                             Append(@, <<act, Association, rec, d[verb].lemma_>>)]
        ELSE st
  ELSE st

\* one iteration of "for token in doc"
processToken(st, d, i, wnOk) == Rule5(Rule234(Rule1(st, d, i, wnOk), d, i), d, i)

------------------------------------------------------------------------------
(* The emitter *)

Range(f) == {f[x] : x \in DOMAIN f}

\* faulty variant of unique_rels: the emitter iterates the list itself
unique_rels_list(rels) ==
  [t \in Range(rels) |-> Cardinality({k \in DOMAIN rels : rels[k] = t})]

\* unique_rels = set(self.relationships), as the number of times the
\* for-loop of the emitter meets each tuple
unique_rels(rels) == [t \in Range(rels) |-> 1]

\* the dot.edge call made for one relationship
edge(t) ==
  IF t[2] = Generalization THEN
    [tail |-> t[1], head |-> t[3], dir |-> "", arrowtail |-> "",
     arrowhead |-> "onormal", label |-> EmptyLabel]
  ELSE IF t[2] = Composition THEN
    [tail |-> t[1], head |-> t[3], dir |-> "both", arrowtail |-> "diamond",
     arrowhead |-> "none", label |-> t[4]]
  ELSE
    [tail |-> t[1], head |-> t[3], dir |-> "", arrowtail |-> "",
     arrowhead |-> "vee", label |-> t[4]]

RECURSIVE timesMet(_, _)
timesMet(u, S) ==
  IF S = {} THEN 0
  ELSE LET t == CHOOSE x \in S : TRUE IN u[t] + timesMet(u, S \ {t})

\* the dot.node call made for one class: the three compartments
node(cls, c) ==
  [name       |-> c,
   attributes |-> {<<"-", " ">> \o a : a \in cls[c].attributes},
   methods    |-> {<<"+", " ">> \o m \o <<"(", ")">> : m \in cls[c].methods}]

\* generate_graphviz: the nodes, and the edges as a bag (edge -> number drawn)
generate_graphviz(cls, rels) ==
  LET u == unique_rels(rels) IN
  [isNone |-> FALSE,
   nodes  |-> {node(cls, c) : c \in DOMAIN cls},
   edges  |-> [e \in {edge(t) : t \in DOMAIN u} |->
                 timesMet(u, {t \in DOMAIN u : edge(t) = e})]]

\* process has not returned, or it returned None
NoGraph == [isNone |-> TRUE, nodes |-> {}, edges |-> <<>>]

------------------------------------------------------------------------------
(* The engine as a state machine *)

NoClasses == <<>>

\* the state __init__ leaves
Init ==
  /\ nlpOk \in BOOLEAN
  /\ wordnetOk \in BOOLEAN
  /\ classes = NoClasses
  /\ relationships = <<>>
  /\ doc = <<>>
  /\ idx = 0
  /\ mult = NoMult
  /\ graph = NoGraph
  /\ stale = FALSE
  /\ pc = "idle"

\* process when self.nlp is falsy: returns None and touches nothing
ProcessNoModel ==
  /\ pc \in {"idle", "done", "failed"}
  /\ ~nlpOk
  /\ pc' = "done"
  /\ graph' = NoGraph
  /\ UNCHANGED <<nlpOk, wordnetOk, classes, relationships, doc, idx, mult, stale>>

\* faulty variant of resetClasses: the registry is not reset
resetClasses_missing(cls) == cls

\* the registry as process leaves it at entry
resetClasses(cls) == NoClasses

\* the relationship list as process leaves it at entry
resetRelationships(rels) == <<>>

\* process, lines 95-96: the reset at entry of a call made with a model
Process ==
  /\ pc \in {"idle", "done", "failed"}
  /\ nlpOk
  /\ classes' = resetClasses(classes)
  /\ relationships' = resetRelationships(relationships)
  /\ doc' = <<>>
  /\ idx' = 0
  /\ mult' = NoMult
  /\ graph' = NoGraph
  /\ stale' = (classes # NoClasses \/ relationships # <<>>)
  /\ pc' = "parse"
  /\ UNCHANGED <<nlpOk, wordnetOk>>

\* process, line 97: doc = self.nlp(text)
Parse ==
  /\ pc = "parse"
  /\ doc' \in Docs
  /\ stale' = FALSE
  /\ pc' = "loop"
  /\ UNCHANGED <<nlpOk, wordnetOk, classes, relationships, idx, mult, graph>>

\* one iteration of the for-loop
ProcessToken ==
  /\ pc = "loop"
  /\ idx < Len(doc)
  /\ LET st == processToken(EngineState(classes, relationships, mult),
                            doc, idx + 1, wordnetOk)
     IN  /\ classes' = st.classes
         /\ relationships' = st.relationships
         /\ mult' = st.mult
  /\ idx' = idx + 1
  /\ UNCHANGED <<nlpOk, wordnetOk, doc, graph, stale, pc>>

\* return self.generate_graphviz()
Return ==
  /\ pc = "loop"
  /\ idx = Len(doc)
  /\ graph' = generate_graphviz(classes, relationships)
  /\ pc' = "done"
  /\ UNCHANGED <<nlpOk, wordnetOk, classes, relationships, doc, idx, mult, stale>>

\* an exception leaves process and is caught by the caller: the engine
\* keeps what the call had built so far, the locals of the call are gone
Raise ==
  /\ pc \in {"parse", "loop"}
  /\ doc' = <<>>
  /\ idx' = 0
  /\ mult' = NoMult
  /\ stale' = FALSE
  /\ pc' = "failed"
  /\ UNCHANGED <<nlpOk, wordnetOk, classes, relationships, graph>>

Next == ProcessNoModel \/ Process \/ Parse \/ ProcessToken \/ Return \/ Raise

Spec == Init /\ [][Next]_vars

------------------------------------------------------------------------------
(* Vocabulary of the properties *)

Last(q) == q[Len(q)]

\* the call in progress has processed token i in its latest step
JustProcessed(i) == pc = "loop" /\ idx = i /\ i >= 1

\* the step being taken is the loop iteration on token i
ProcessingToken(i) == pc = "loop" /\ idx' = idx + 1 /\ i = idx + 1

\* token i of d triggers Rule 3 with an owner and an object
Rule3Pattern(d, i) ==
  /\ d[i].lemma_ # w_be
  /\ d[i].lemma_ \in CompositionVerbs
  /\ childrenWithDep(d, i, "nsubj") # <<>>
  /\ childrenWithDep(d, i, "dobj") # <<>>

Rule3Owner(d, i)  == capitalize(d[childrenWithDep(d, i, "nsubj")[1]].lemma_)
Rule3Object(d, i) == childrenWithDep(d, i, "dobj")[1]

\* token i of d triggers Rule 5 with an actor and a patient
Rule5Pattern(d, i) ==
  /\ d[i].dep_ = "agent"
  /\ d[d[i].head].pos_ = "VERB"
  /\ childrenWithDep(d, i, "pobj") # <<>>
  /\ childrenWithDep(d, d[i].head, "nsubjpass") # <<>>

Rule5Actor(d, i)   == capitalize(d[childrenWithDep(d, i, "pobj")[1]].lemma_)
Rule5Patient(d, i) == capitalize(d[childrenWithDep(d, d[i].head, "nsubjpass")[1]].lemma_)

\* every entry of registry a is in registry b, with its sets included
Kept(a, b) ==
  \A c \in DOMAIN a :
    /\ c \in DOMAIN b
    /\ a[c].attributes \subseteq b[c].attributes
    /\ a[c].methods \subseteq b[c].methods

------------------------------------------------------------------------------
(* C1 *)

\* C1: one process call on the default three sentences ends with the classes
\* BankSystem, Account, Customer, Administrator and System registered, with
\* (BankSystem, Composition, Account, "1..*") in the relationship collection
\* and with an Association labelled "manage" from Administrator to System.
C1_EndToEnd ==
  (pc = "done" /\ doc = DefaultDoc) =>
    /\ {w_BankSystem, w_Account, w_Customer, w_Administrator, w_System}
         \subseteq DOMAIN classes
    /\ <<w_BankSystem, Composition, w_Account, MultOneMany>> \in Range(relationships)
    /\ <<w_Administrator, Association, w_System, w_manage>> \in Range(relationships)

------------------------------------------------------------------------------
(* C2 *)

\* the multiplicity the claim gives the token i of d
claimedMultiplicity(d, i) ==
  LET cs == Range(children(d, i)) IN
  IF \E c \in cs : lower(d[c].text) \in QuantifierWords THEN MultOneMany
  ELSE IF \E c \in cs : d[c].tag_ = "NNS" THEN MultZeroMany
  ELSE MultOne

\* C2: whenever Rule 3 has inferred the multiplicity of an object token, the
\* result is "1..*" if some child of the object is a quantifier word (also
\* when a plural-tagged child comes earlier), "0..*" if none is and some
\* child is plural-tagged, and "1" otherwise.
C2_MultiplicityPriority ==
  \A i \in 1..Len(doc) :
    (JustProcessed(i) /\ Rule3Pattern(doc, i)) =>
      mult = claimedMultiplicity(doc, Rule3Object(doc, i))

------------------------------------------------------------------------------
(* C3 *)

\* C3: when the loop processes a have/contain/include/consist token that has
\* an nsubj owner whose class is registered and a dobj object, then either
\* the object's class is registered, exactly the tuple (owner, Composition,
\* object, label) is appended, label being the inferred multiplicity or
\* empty when that is "1", and the registry is unchanged; or it is not
\* registered, the object's surface text joins the owner's attributes,
\* nothing else changes in the registry and no relationship is appended.
C3_Rule3EitherOr ==
  [][ \A i \in 1..Len(doc) :
        (/\ ProcessingToken(i)
         /\ Rule3Pattern(doc, i)
         /\ Rule3Owner(doc, i) \in DOMAIN classes) =>
          LET o      == Rule3Owner(doc, i)
              obj    == doc[Rule3Object(doc, i)]
              obj_c  == capitalize(obj.lemma_)
              label  == IF mult' = MultOne THEN EmptyLabel ELSE mult'
          IN  /\ mult' \in {MultOne, MultZeroMany, MultOneMany}
              /\ IF obj_c \in DOMAIN classes
                 THEN /\ relationships' =
                           Append(relationships, <<o, Composition, obj_c, label>>)
                      /\ classes' = classes
                 ELSE /\ relationships' = relationships
                      /\ obj.text \in classes'[o].attributes
                      /\ classes' = [classes EXCEPT ![o].attributes = @ \cup {obj.text}]
    ]_vars

\* a Rule 3 token has just appended a labelled Composition while another
\* class holds a demoted attribute
C3_Witness ==
  \E i \in 1..Len(doc) :
    /\ JustProcessed(i)
    /\ Rule3Pattern(doc, i)
    /\ relationships # <<>>
    /\ Last(relationships)[1] = Rule3Owner(doc, i)
    /\ Last(relationships)[2] = Composition
    /\ \E c \in DOMAIN classes : classes[c].attributes # {}

------------------------------------------------------------------------------
(* C4 *)

\* C4: when the loop processes an agent token whose head is a VERB, with a
\* pobj child (actor) and an nsubjpass child of the head (patient), then
\* afterwards both classes are registered, the verb lemma is a method of the
\* actor, (actor, Association, patient, verb lemma) is the tuple appended,
\* and every class registered before keeps its attributes and methods.
C4_PassiveCreatesClasses ==
  [][ \A i \in 1..Len(doc) :
        (ProcessingToken(i) /\ Rule5Pattern(doc, i)) =>
          LET act == Rule5Actor(doc, i)
              rec == Rule5Patient(doc, i)
              v   == doc[doc[i].head].lemma_
          IN  /\ {act, rec} \subseteq DOMAIN classes'
              /\ v \in classes'[act].methods
              /\ Len(relationships') = Len(relationships) + 1
              /\ Last(relationships') = <<act, Association, rec, v>>
              /\ Kept(classes, classes')
    ]_vars

\* an agent token has just been processed whose patient is a denylisted
\* noun, now registered, and whose actor class already held an attribute
C4_Witness ==
  \E i \in 1..Len(doc) :
    /\ JustProcessed(i)
    /\ Rule5Pattern(doc, i)
    /\ lower(Rule5Patient(doc, i)) \in DenyList
    /\ Rule5Patient(doc, i) \in DOMAIN classes
    /\ classes[Rule5Actor(doc, i)].attributes # {}
    /\ Last(relationships)[2] = Association

------------------------------------------------------------------------------
(* C5 *)

\* the texts made of one copula sentence
CopulaAloneDocs == {nlp(<<Copula(p[1], p[2])>>) : p \in DistinctPairs}

\* C5: the loop iteration on a token with lemma "be" adds no key to the
\* registry, and it changes the relationship list only by appending
\* (subject, Generalization, predicate, "") when the token has an nsubj and
\* an attr child whose classes are both registered already; a text made of
\* one copula sentence ends with no Generalization.
C5_GeneralizationNeedsClasses ==
  /\ [][ \A i \in 1..Len(doc) :
           (ProcessingToken(i) /\ doc[i].lemma_ = w_be) =>
             /\ DOMAIN classes' = DOMAIN classes
             /\ relationships' # relationships =>
                  /\ childrenWithDep(doc, i, "nsubj") # <<>>
                  /\ childrenWithDep(doc, i, "attr") # <<>>
                  /\ LET c == capitalize(doc[childrenWithDep(doc, i, "nsubj")[1]].lemma_)
                         p == capitalize(doc[childrenWithDep(doc, i, "attr")[1]].lemma_)
                     IN  /\ c \in DOMAIN classes
                         /\ p \in DOMAIN classes
                         /\ relationships' =
                              Append(relationships, <<c, Generalization, p, EmptyLabel>>)
       ]_vars
  /\ [](doc \in CopulaAloneDocs =>
          \A t \in Range(relationships) : t[2] # Generalization)

\* a copula token has just appended a Generalization
C5_Witness ==
  \E i \in 1..Len(doc) :
    /\ JustProcessed(i)
    /\ doc[i].lemma_ = w_be
    /\ childrenWithDep(doc, i, "attr") # <<>>
    /\ relationships # <<>>
    /\ Last(relationships)[2] = Generalization

------------------------------------------------------------------------------
(* C6 *)

NoDuplicates(q) == \A i, j \in DOMAIN q : i # j => q[i] # q[j]

\* the graph returned holds exactly one edge for each distinct tuple
OneEdgePerTuple ==
  /\ DOMAIN graph.edges = {edge(t) : t \in Range(relationships)}
  /\ \A e \in DOMAIN graph.edges : graph.edges[e] = 1
  /\ Cardinality(DOMAIN graph.edges) = Cardinality(Range(relationships))

\* C6 as stated: after a process call the relationship collection holds no
\* two identical tuples and the emitter has drawn exactly one edge per
\* distinct tuple.
C6_DedupOfCollection ==
  (pc = "done" /\ ~graph.isNone) =>
    (NoDuplicates(relationships) /\ OneEdgePerTuple)

\* C6 as amended: after a process call the emitter has drawn exactly one edge
\* per distinct tuple of the relationship list, however often the list
\* repeats a tuple (the list itself keeps its repeats).
C6_DedupAtEmission ==
  (pc = "done" /\ ~graph.isNone) => OneEdgePerTuple

\* a call has returned a graph with edges from a list that repeats a tuple
C6_Witness ==
  /\ pc = "done"
  /\ ~graph.isNone
  /\ ~NoDuplicates(relationships)
  /\ DOMAIN graph.edges # {}

------------------------------------------------------------------------------
(* C7 *)

\* C7: in every state the source and the target of every relationship of
\* the list are keys of the registry, and every edge of a returned graph
\* joins two of its nodes.
C7_EndpointValidity ==
  /\ \A t \in Range(relationships) :
       t[1] \in DOMAIN classes /\ t[3] \in DOMAIN classes
  /\ (pc = "done" /\ ~graph.isNone) =>
       \A e \in DOMAIN graph.edges :
         /\ \E n \in graph.nodes : n.name = e.tail
         /\ \E n \in graph.nodes : n.name = e.head

\* a graph was returned with two edges or more, one of them to a class
\* that only Rule 5 can have created
C7_Witness ==
  /\ pc = "done"
  /\ ~graph.isNone
  /\ Cardinality(DOMAIN graph.edges) >= 2
  /\ \E e \in DOMAIN graph.edges : lower(e.head) \in DenyList

------------------------------------------------------------------------------
(* C8 *)

\* the loop of process run on tokens i..n of d, from state st
RECURSIVE runRange(_, _, _, _, _)
runRange(st, d, i, n, wnOk) ==
  IF i > n THEN st
  ELSE runRange(processToken(st, d, i, wnOk), d, i + 1, n, wnOk)

\* C8: whatever the engine held when process was entered, after the reset
\* the registry and the list are empty, and during and after the loop they
\* hold exactly what the tokens processed so far produce on a fresh engine.
C8_ResetOnEntry ==
  /\ pc = "parse" => (classes = NoClasses /\ relationships = <<>>)
  /\ pc \in {"loop", "done"} =>
       LET fresh == runRange(EngineState(NoClasses, <<>>, NoMult),
                             doc, 1, idx, wordnetOk)
       IN  /\ classes = fresh.classes
           /\ relationships = fresh.relationships

\* a call entered with a non-empty engine has been through its reset
C8_Witness ==
  /\ pc = "parse"
  /\ stale
  /\ classes = NoClasses
  /\ relationships = <<>>

------------------------------------------------------------------------------
(* C9 *)

\* C9: no step of a call in its loop removes a class or an element of a
\* class's attribute or method set.
C9_MonotonicRegistration ==
  [][ pc = "loop" => Kept(classes, classes') ]_vars

\* token i passes the filters of Rule 1
Rule1Pattern(d, i, wnOk) ==
  /\ d[i].pos_ \in {"NOUN", "PROPN"}
  /\ d[i].dep_ \in {"nsubj", "dobj", "pobj", "nsubjpass"}
  /\ lower(d[i].lemma_) \notin DenyList
  /\ check_ontology(wnOk, lower(d[i].lemma_))

\* Rule 1 has just met again the noun of a class that holds a method
C9_Witness ==
  \E i \in 1..Len(doc) :
    /\ JustProcessed(i)
    /\ Rule1Pattern(doc, i, wordnetOk)
    /\ capitalize(doc[i].lemma_) \in DOMAIN classes
    /\ classes[capitalize(doc[i].lemma_)].methods # {}
    /\ \E j \in 1..(i - 1) : doc[j].lemma_ = doc[i].lemma_

------------------------------------------------------------------------------
(* C10 *)

\* C10: at the end of a process call, if the object of a Rule 3 token is an
\* attribute of the owner's class, the object's capitalized lemma is not a
\* key of the registry.
C10_AttributeVersusClass ==
  pc = "done" =>
    \A i \in 1..Len(doc) :
      (/\ Rule3Pattern(doc, i)
       /\ Rule3Owner(doc, i) \in DOMAIN classes
       /\ doc[Rule3Object(doc, i)].text \in classes[Rule3Owner(doc, i)].attributes) =>
        capitalize(doc[Rule3Object(doc, i)].lemma_) \notin DOMAIN classes

====
